---- MODULE Spec2Model ----
(***************************************************************************)
(* hello-myo.cpp ("Bike signs"): a DataCollector listener with two         *)
(* callbacks (onOrientationData, onPose), its print(), and the main loop   *)
(* that discovers a Myo, registers the listener and alternates hub.run     *)
(* with print().                                                           *)
(*                                                                         *)
(* Numbers.  TLC has 32-bit integers and no floats, so the float           *)
(* arithmetic of onOrientationData is carried out in fixed point:          *)
(*   - quaternion components and the norm in units of 1/QOne,              *)
(*   - products of two components in units of 1/One (One = QOne * QOne),   *)
(*   - angles in units of 1/AngleScale radian,                             *)
(*   - the float value NaN as a reserved integer.                          *)
(* sqrtf and the divisions round to nearest as the float operations do;    *)
(* atan2f and asinf are evaluated by CORDIC rotation and keep the special  *)
(* values and the result ranges the C library guarantees.                  *)
(***************************************************************************)
EXTENDS Integers, Sequences, FiniteSets, TLC

\* ------------------------------------------------------------------------
\* Bounds of the model
\* ------------------------------------------------------------------------

\* Quaternion components delivered by the SDK are drawn from -QMax..QMax.
QMax == 1

\* ------------------------------------------------------------------------
\* Fixed-point float arithmetic
\* ------------------------------------------------------------------------

QOne == 2^12
One == QOne * QOne
AngleScale == 10^7
\* NaN is encoded as an integer that no computation below produces.
NaN == 2^30 + (2^30 - 1)
IsNaN(a) == a = NaN

\* (float)M_PI = 3.14159274 and M_PI = 3.14159265, in 1/AngleScale radian.
PI_F == 31415927
M_PI == 31415927
\* (float)M_PI/2.0f = 1.57079637, which is also asinf(1.0f).
HALF_PI_F == 15707964

\* INT_MIN, the value cvttss2si stores for a NaN operand.
IntMin == -2147483647 - 1

Abs(a) == IF a < 0 THEN -a ELSE a

\* a / b rounded to nearest, b > 0 (a float division).
DivRound(a, b) ==
    IF a >= 0 THEN (2 * a + b) \div (2 * b) ELSE -((2 * (-a) + b) \div (2 * b))

\* a / b truncated toward zero, b > 0 (static_cast<int> of the quotient).
TruncDiv(a, b) == IF a >= 0 THEN a \div b ELSE -((-a) \div b)

RECURSIVE FloorSqrt(_, _, _)
FloorSqrt(v, lo, hi) ==
    IF lo >= hi THEN lo
    ELSE LET mid == (lo + hi + 1) \div 2
         IN  IF mid * mid <= v THEN FloorSqrt(v, mid, hi)
             ELSE FloorSqrt(v, lo, mid - 1)

\* sqrtf: the square root rounded to nearest.  v is in squared units.
SqrtF(v) ==
    LET r == FloorSqrt(v, 0, 46340)
    IN  IF v - r * r > r THEN r + 1 ELSE r

\* atan(2^-i), i = 0, 1, ..., in 1/AngleScale radian.
AtanTable ==
    << 7853982, 4636476, 2449787, 1243550, 624188, 312398, 156237, 78123,
       39062, 19531, 9766, 4883, 2441, 1221, 610, 305, 153, 76, 38, 19,
       10, 5, 2, 1 >>

\* CORDIC vectoring: rotates (x, y), x > 0, onto the x axis and returns the
\* accumulated angle.
RECURSIVE Cordic(_, _, _, _)
Cordic(x, y, i, acc) ==
    IF i > Len(AtanTable) \/ y = 0 THEN acc
    ELSE LET s == 2^(i - 1)
         IN  IF y > 0
             THEN Cordic(x + (y \div s), y - (x \div s), i + 1, acc + AtanTable[i])
             ELSE Cordic(x - (y \div s), y + (x \div s), i + 1, acc - AtanTable[i])

Clamp(v, lo, hi) == IF v < lo THEN lo ELSE IF v > hi THEN hi ELSE v

\* atan2f(y, x): four-quadrant arctangent, result in [-pi, pi].
Atan2F(y, x) ==
    IF IsNaN(y) \/ IsNaN(x) THEN NaN
    ELSE IF y = 0 THEN (IF x >= 0 THEN 0 ELSE PI_F)
    ELSE IF x = 0 THEN (IF y > 0 THEN HALF_PI_F ELSE -HALF_PI_F)
    ELSE IF x > 0 THEN Clamp(Cordic(x, y, 1, 0), -HALF_PI_F, HALF_PI_F)
    ELSE IF y > 0 THEN Clamp(Cordic(-x, -y, 1, PI_F), HALF_PI_F, PI_F)
    ELSE Clamp(Cordic(-x, -y, 1, -PI_F), -PI_F, -HALF_PI_F)

\* asinf(v): NaN outside [-1, 1], result in [-pi/2, pi/2].
AsinF(v) ==
    IF IsNaN(v) THEN NaN
    ELSE IF Abs(v) > One THEN NaN
    ELSE IF v = One THEN HALF_PI_F
    ELSE IF v = -One THEN -HALF_PI_F
    ELSE Atan2F(v, SqrtF(One - v) * SqrtF(One + v))

\* ------------------------------------------------------------------------
\* DataCollector::onOrientationData, the conversion
\* ------------------------------------------------------------------------

Quat(x, y, z, w) == [x |-> x, y |-> y, z |-> z, w |-> w]

\* float norm = sqrtf(x*x + y*y + z*z + w*w), in units of 1/QOne.
Norm(quat) ==
    SqrtF(QOne * QOne * (quat.x * quat.x + quat.y * quat.y
                         + quat.z * quat.z + quat.w * quat.w))

\* One component divided by the norm; 0/0 is NaN.
DivNorm(c, norm) == IF norm = 0 THEN NaN ELSE DivRound(c * QOne * QOne, norm)

\* myo::Quaternion<float> normalized(x/norm, y/norm, z/norm, w/norm).
Normalized(quat) ==
    LET norm == Norm(quat)
    IN  [x |-> DivNorm(quat.x, norm), y |-> DivNorm(quat.y, norm),
         z |-> DivNorm(quat.z, norm), w |-> DivNorm(quat.w, norm)]

Roll(n) ==
    IF IsNaN(n.x) THEN NaN
    ELSE Atan2F(2 * (n.w * n.x + n.y * n.z), One - 2 * (n.x * n.x + n.y * n.y))

Pitch(n) ==
    IF IsNaN(n.x) THEN NaN
    ELSE AsinF(2 * (n.w * n.y - n.z * n.x))

Yaw(n) ==
    IF IsNaN(n.x) THEN NaN
    ELSE Atan2F(2 * (n.w * n.z + n.x * n.y), One - 2 * (n.y * n.y + n.z * n.z))

\* static_cast<int>(f): truncation; of NaN it is undefined, and the build
\* decides the value (nan).
CastInt(num, den, nan) == IF IsNaN(num) THEN nan ELSE TruncDiv(num, den)

AddF(a, b) == IF IsNaN(a) THEN NaN ELSE a + b
MulF(a, k) == IF IsNaN(a) THEN NaN ELSE a * k

Scale == 18

\* RollBucket scaled to 20, the scale the comment above the code names.
RollBucketTwenty(roll, nan) == CastInt(MulF(AddF(roll, PI_F), 20), 2 * M_PI, nan)

\* (roll + (float)M_PI)/(M_PI * 2.0f) * 18, and the same for yaw.
RollBucket(roll, nan) == CastInt(MulF(AddF(roll, PI_F), Scale), 2 * M_PI, nan)

\* PitchBucket divided by the full turn of the roll and yaw lines.
PitchBucketFullTurn(pitch, nan) ==
    CastInt(MulF(AddF(pitch, HALF_PI_F), Scale), 2 * M_PI, nan)

\* (pitch + (float)M_PI/2.0f)/M_PI * 18
PitchBucket(pitch, nan) == CastInt(MulF(AddF(pitch, HALF_PI_F), Scale), M_PI, nan)

EulerAngles(quat) ==
    LET n == Normalized(quat)
    IN  [roll |-> Roll(n), pitch |-> Pitch(n), yaw |-> Yaw(n)]


\* The quaternions the SDK may deliver: every 4-tuple over -QMax..QMax, the
\* zero quaternion (malformed sensor data) included.
QuatInputs == [x : -QMax..QMax, y : -QMax..QMax, z : -QMax..QMax, w : -QMax..QMax]

Identity == Quat(0, 0, 0, 1)
ZeroQuat == Quat(0, 0, 0, 0)

\* The quaternions delivered while the whole program runs: the identity, the
\* zero quaternion, roll = pi, pitch = pi/2, pitch = -pi/2.
QuatSamples ==
    { Identity, ZeroQuat, Quat(1, 0, 0, 0), Quat(1, 1, -1, 1), Quat(1, -1, 1, 1) }

\* The inputs numbered 1, 2, ..., and the table of the angles of each.
QuatSide == 2 * QMax + 1
QuatIndex(q) ==
    1 + (q.x + QMax) + QuatSide * ((q.y + QMax) + QuatSide * ((q.z + QMax)
                                   + QuatSide * (q.w + QMax)))
QuatAt(i) ==
    Quat(((i - 1) % QuatSide) - QMax,
         (((i - 1) \div QuatSide) % QuatSide) - QMax,
         (((i - 1) \div (QuatSide * QuatSide)) % QuatSide) - QMax,
         ((i - 1) \div (QuatSide * QuatSide * QuatSide)) - QMax)
AnglesTable ==
    [i \in 1..(QuatSide * QuatSide * QuatSide * QuatSide) |-> EulerAngles(QuatAt(i))]
    @@ <<>>
AnglesOf(quat) == AnglesTable[QuatIndex(quat)]

\* What static_cast<int> makes of NaN: INT_MIN (x86), 0 (ARM).
CastNaNOutcomes == {IntMin, 0}

\* The values an undefined conversion may take in one call: a choice only
\* when an angle of quat is NaN.
CastOutcomes(quat) ==
    LET a == AnglesOf(quat)
    IN  IF IsNaN(a.roll) \/ IsNaN(a.pitch) \/ IsNaN(a.yaw)
        THEN CastNaNOutcomes ELSE {IntMin}

\* ------------------------------------------------------------------------
\* myo::Pose, as far as the program uses it
\* ------------------------------------------------------------------------

\* Pose values.  name16 and name17 stand for poses whose names have 16 and
\* 17 characters: the enumeration belongs to the SDK and is not closed.
Poses == {"unknown", "rest", "fist", "fingersSpread", "name16", "name17"}

\* myo::Pose(): the default pose.
DefaultPose == "unknown"

Fist == "fist"

\* Pose::toString(), as a sequence of characters.
toString(pose) ==
    CASE pose = "unknown" -> <<"u","n","k","n","o","w","n">>
      [] pose = "rest" -> <<"r","e","s","t">>
      [] pose = "fist" -> <<"f","i","s","t">>
      [] pose = "fingersSpread" ->
            <<"f","i","n","g","e","r","s","S","p","r","e","a","d">>
      [] pose = "name16" ->
            <<"r","e","s","e","r","v","e","d","G","e","s","t","u","r","e","1">>
      [] pose = "name17" ->
            <<"r","e","s","e","r","v","e","d","G","e","s","t","u","r","e","1","0">>

\* ------------------------------------------------------------------------
\* State
\* ------------------------------------------------------------------------

VARIABLES
    pc,          \* where main() is
    myo,         \* result of hub.waitForAnyMyo: "none" before the call
    listener,    \* hub.addListener(&collector) has been called
    roll_w, pitch_w, yaw_w, currentPose,   \* DataCollector's fields
    vibrateLog,  \* the calls of myo->vibrate made by the last operation
    cout,        \* the lines written to std::cout before the main loop
    line,        \* the terminal's current line, as characters
    cerr,        \* the lines written to std::cerr
    exc,         \* the exception in flight or caught: its what()
    exitStatus,  \* main's return value, -1 while it runs
    lastQuat,    \* history: <<quat>> of the last onOrientationData, or <<>>
    lastPose,    \* history: pose of the last onPose, or "none"
    lastOp       \* history: the last operation that ran

collector == <<roll_w, pitch_w, yaw_w, currentPose>>
history == <<lastQuat, lastPose, lastOp>>
process == <<pc, myo, listener, cout, line, cerr, exc, exitStatus>>
vars == <<pc, myo, listener, roll_w, pitch_w, yaw_w, currentPose, vibrateLog,
          cout, line, cerr, exc, exitStatus, lastQuat, lastPose, lastOp>>

NoDevice == "Unable to find a Myo!"
LengthError == "length_error"
VibrationMedium == "VibrationMedium"

\* DataCollector with pitch_w started at the middle of the scale.
DataCollectorMidPitch ==
    [roll_w |-> 0, pitch_w |-> 9, yaw_w |-> 0, currentPose |-> DefaultPose]

\* DataCollector(): roll_w(0), pitch_w(0), yaw_w(0), currentPose().
DataCollector ==
    [roll_w |-> 0, pitch_w |-> 0, yaw_w |-> 0, currentPose |-> DefaultPose]

Constructed ==
    /\ roll_w = DataCollector.roll_w
    /\ pitch_w = DataCollector.pitch_w
    /\ yaw_w = DataCollector.yaw_w
    /\ currentPose = DataCollector.currentPose

NoHistory ==
    /\ lastQuat = <<>>
    /\ lastPose = "none"
    /\ lastOp = "none"

Init ==
    /\ pc = "start"
    /\ myo = "none"
    /\ listener = FALSE
    /\ Constructed
    /\ vibrateLog = <<>>
    /\ cout = <<>>
    /\ line = <<>>
    /\ cerr = <<>>
    /\ exc = "none"
    /\ exitStatus = -1
    /\ NoHistory

\* ------------------------------------------------------------------------
\* DataCollector's callbacks
\* ------------------------------------------------------------------------

\* onOrientationData(myo, timestamp, quat); nan is what the build makes of
\* static_cast<int>(NaN).
onOrientationData(quat, nan) ==
    LET a == AnglesOf(quat)
    IN  /\ roll_w' = RollBucket(a.roll, nan)
        /\ pitch_w' = PitchBucket(a.pitch, nan)
        /\ yaw_w' = RollBucket(a.yaw, nan)
        /\ vibrateLog' = <<>>
        /\ UNCHANGED currentPose

\* onPose that stores the pose only inside the fist branch.
onPoseFistOnly(pose) ==
    /\ currentPose' = IF pose = Fist THEN pose ELSE currentPose
    /\ vibrateLog' = IF pose = Fist /\ pitch_w < 5
                     THEN <<VibrationMedium>>
                     ELSE <<>>
    /\ UNCHANGED <<roll_w, pitch_w, yaw_w>>

\* onPose without the pitch test.
onPoseAnyFist(pose) ==
    /\ currentPose' = pose
    /\ vibrateLog' = IF pose = Fist THEN <<VibrationMedium>> ELSE <<>>
    /\ UNCHANGED <<roll_w, pitch_w, yaw_w>>

\* onPose(myo, timestamp, pose)
onPose(pose) ==
    /\ currentPose' = pose
    /\ vibrateLog' = IF pose = Fist /\ pitch_w < 5
                     THEN <<VibrationMedium>>
                     ELSE <<>>
    /\ UNCHANGED <<roll_w, pitch_w, yaw_w>>

\* Events sent from another thread, also while print() runs.
PumpingAnyTime == pc \in {"run", "print"} /\ listener

\* Hub::run() sends the events to the registered listener while it runs.
Pumping == pc = "run" /\ listener

DeliverOrientation(quat) ==
    /\ Pumping
    /\ \E nan \in CastOutcomes(quat) : onOrientationData(quat, nan)
    /\ lastQuat' = <<quat>>
    /\ lastOp' = "orientation"
    /\ UNCHANGED <<lastPose, process>>

DeliverPose(pose) ==
    /\ Pumping
    /\ onPose(pose)
    /\ lastPose' = pose
    /\ lastOp' = "pose"
    /\ UNCHANGED <<lastQuat, process>>


\* ------------------------------------------------------------------------
\* DataCollector::print
\* ------------------------------------------------------------------------

GaugeWidth == 18
NameWidth == 16

\* What constructing a std::string yields instead of a string when the
\* count exceeds max_size(): std::length_error is thrown.
Thrown == <<LengthError>>

Rep(n, ch) == [i \in 1..n |-> ch]

\* std::string(count, ch) with an int count: a negative count converts to a
\* size_t above max_size().
StdString(count, ch) == IF count < 0 THEN Thrown ELSE Rep(count, ch)

\* a - b in int.  Past INT_MAX the difference is undefined and wraps on the
\* builds at hand; the only operand that gets there is INT_MIN, for which
\* std::string(w, '*') of the same statement throws whatever 18 - w is.
IntSub(a, b) == IF b < a + IntMin + 1 THEN (a + IntMin) - (b - IntMin) ELSE a - b

\* a - b in size_t, as the count of a std::string: below zero it wraps to a
\* count above max_size().
SizeSub(a, b) == IF b > a THEN -1 ELSE a - b

\* The gauge padded to 20, the scale the comment in onOrientationData names.
GaugePiecesTwenty(w) ==
    << <<"[">>, StdString(w, "*"), StdString(IntSub(20, w), " "), <<"]">> >>

\* '[' << std::string(w, '*') << std::string(18 - w, ' ') << ']'
GaugePieces(w) ==
    << <<"[">>, StdString(w, "*"), StdString(IntSub(GaugeWidth, w), " "), <<"]">> >>

\* '[' << poseString << std::string(16 - poseString.size(), ' ') << ']'
NamePieces(poseString) ==
    << <<"[">>, poseString,
       StdString(SizeSub(NameWidth, Len(poseString)), " "), <<"]">> >>

\* The operands of the output statement, left to right.
PrintPieces(r, p, y, pose) ==
    GaugePieces(r) \o GaugePieces(p) \o GaugePieces(y) \o NamePieces(toString(pose))

RECURSIVE Concat(_, _)
\* The first n pieces, written one after the other.
Concat(pieces, n) ==
    IF n = 0 THEN <<>> ELSE Concat(pieces, n - 1) \o pieces[n]

\* How many pieces precede the first one whose construction throws.
Sound(pieces) ==
    IF \E i \in 1..Len(pieces) : pieces[i] = Thrown
    THEN (CHOOSE i \in 1..Len(pieces) :
              /\ pieces[i] = Thrown
              /\ \A j \in 1..(i - 1) : pieces[j] # Thrown) - 1
    ELSE Len(pieces)

\* print(): '\r' clears the line, then the statement writes its operands.
\* If constructing an operand throws, what was written before it depends
\* on the order of evaluation: every operand before the first output (none
\* is written), or left to right (the pieces before the throwing one are).
print ==
    /\ pc = "print"
    /\ LET pieces == PrintPieces(roll_w, pitch_w, yaw_w, currentPose)
           n == Sound(pieces)
       IN  IF n = Len(pieces)
           THEN /\ line' = Concat(pieces, n)
                /\ pc' = "run"
                /\ exc' = exc
           ELSE /\ line' \in {<<>>, Concat(pieces, n)}
                /\ pc' = "catch"
                /\ exc' = LengthError
    /\ lastOp' = "print"
    /\ vibrateLog' = <<>>
    /\ UNCHANGED <<myo, listener, collector, cout, cerr, exitStatus,
                   lastQuat, lastPose>>

\* ------------------------------------------------------------------------
\* main
\* ------------------------------------------------------------------------

\* main without the null check after waitForAnyMyo.
WaitForAnyMyoNoCheck ==
    /\ pc = "start"
    /\ cout' = cout \o <<"Bike signs.", "Attempting to find a Myo...">>
    /\ \E found \in BOOLEAN :
          /\ myo' = IF found THEN "found" ELSE "null"
          /\ pc' = "connected"
          /\ exc' = exc
    /\ UNCHANGED <<listener, collector, vibrateLog, line, cerr, exitStatus, history>>

\* myo::Hub hub; the two banner lines; hub.waitForAnyMyo(10000); the throw
\* if it returned a null pointer.
WaitForAnyMyo ==
    /\ pc = "start"
    /\ cout' = cout \o <<"Bike signs.", "Attempting to find a Myo...">>
    /\ \E found \in BOOLEAN :
          IF found
          THEN myo' = "found" /\ pc' = "connected" /\ exc' = exc
          ELSE myo' = "null" /\ pc' = "catch" /\ exc' = NoDevice
    /\ UNCHANGED <<listener, collector, vibrateLog, line, cerr, exitStatus, history>>

\* The "Connected to ..." line, DataCollector collector, hub.addListener.
AddListener ==
    /\ pc = "connected"
    /\ cout' = cout \o <<"Connected to <macAddress>.", "">>
    /\ roll_w' = DataCollector.roll_w
    /\ pitch_w' = DataCollector.pitch_w
    /\ yaw_w' = DataCollector.yaw_w
    /\ currentPose' = DataCollector.currentPose
    /\ listener' = TRUE
    /\ pc' = "run"
    /\ UNCHANGED <<myo, vibrateLog, line, cerr, exc, exitStatus, history>>

\* hub.run(1000/20) returns.
HubRun ==
    /\ pc = "run"
    /\ pc' = "print"
    /\ lastOp' = "run"
    /\ vibrateLog' = <<>>
    /\ UNCHANGED <<myo, listener, collector, cout, line, cerr, exc,
                   exitStatus, lastQuat, lastPose>>

\* catch (const std::exception& e): the two lines on std::cerr.
Catch ==
    /\ pc = "catch"
    /\ cerr' = cerr \o <<"Error: " \o exc, "Press enter to continue.">>
    /\ pc' = "waitkey"
    /\ UNCHANGED <<myo, listener, collector, vibrateLog, cout, line, exc,
                   exitStatus, history>>

\* std::cin.ignore() returns; return 1.
KeyPress ==
    /\ pc = "waitkey"
    /\ exitStatus' = 1
    /\ pc' = "exited"
    /\ UNCHANGED <<myo, listener, collector, vibrateLog, cout, line, cerr, exc,
                   history>>

Next ==
    \/ WaitForAnyMyo
    \/ AddListener
    \/ \E quat \in QuatSamples : DeliverOrientation(quat)
    \/ \E pose \in Poses : DeliverPose(pose)
    \/ HubRun
    \/ print
    \/ Catch
    \/ KeyPress

\* The whole program.
Spec == Init /\ [][Next]_vars


\* The listener on its own: the state once hub.addListener has returned and
\* hub.run delivers events, every quaternion of QuatInputs among them.
InitCollector ==
    /\ pc = "run"
    /\ myo = "found"
    /\ listener = TRUE
    /\ Constructed
    /\ vibrateLog = <<>>
    /\ cout = <<"Bike signs.", "Attempting to find a Myo...",
                "Connected to <macAddress>.", "">>
    /\ line = <<>>
    /\ cerr = <<>>
    /\ exc = "none"
    /\ exitStatus = -1
    /\ NoHistory

NextCollector ==
    \/ \E quat \in QuatInputs : DeliverOrientation(quat)
    \/ \E pose \in Poses : DeliverPose(pose)

SpecCollector == InitCollector /\ [][NextCollector]_vars

\* print() on its own: hub.run has returned with the listener holding any
\* bar lengths of the scale and any pose.  (The history of the events that
\* led there plays no part in print and is left empty.)
InitPrint ==
    /\ pc = "print"
    /\ myo = "found"
    /\ listener = TRUE
    /\ roll_w \in 0..GaugeWidth
    /\ pitch_w \in 0..GaugeWidth
    /\ yaw_w \in 0..GaugeWidth
    /\ currentPose \in Poses
    /\ vibrateLog = <<>>
    /\ cout = <<"Bike signs.", "Attempting to find a Myo...",
                "Connected to <macAddress>.", "">>
    /\ line = <<>>
    /\ cerr = <<>>
    /\ exc = "none"
    /\ exitStatus = -1
    /\ lastQuat = <<>>
    /\ lastPose = "none"
    /\ lastOp = "run"

NextPrint ==
    \/ print
    \/ Catch
    \/ KeyPress

SpecPrint == InitPrint /\ [][NextPrint]_vars


\* ------------------------------------------------------------------------
\* Properties
\* ------------------------------------------------------------------------

Bars == <<roll_w, pitch_w, yaw_w>>
Running == {"connected", "run", "print"}
Failing == {"catch", "waitkey", "exited"}
LineWidth == 3 * (GaugeWidth + 2) + NameWidth + 2

\* Gauge k (0, 1, 2) of the line is '[', b asterisks, 18 - b spaces, ']'.
GaugeAt(k, b) ==
    LET at == k * (GaugeWidth + 2)
    IN  /\ line[at + 1] = "["
        /\ \A i \in 1..GaugeWidth :
              line[at + 1 + i] = (IF i <= b THEN "*" ELSE " ")
        /\ line[at + GaugeWidth + 2] = "]"

\* The name field of the line is '[', 16 characters, ']': the name, cut
\* after 16 characters or filled up with spaces.
NameAt(name) ==
    LET at == 3 * (GaugeWidth + 2)
    IN  /\ Len(line) = LineWidth
        /\ line[at + 1] = "["
        /\ \A i \in 1..NameWidth :
              line[at + 1 + i] = (IF i <= Len(name) THEN name[i] ELSE " ")
        /\ line[LineWidth] = "]"

LineShows(r, p, y, pose) ==
    /\ Len(line) = LineWidth
    /\ GaugeAt(0, r)
    /\ GaugeAt(1, p)
    /\ GaugeAt(2, y)
    /\ NameAt(toString(pose))

ErrorLines(what) == <<"Error: " \o what, "Press enter to continue.">>

\* C1: when discovery returns no device, the program is on the error path
\* with "Unable to find a Myo!": the listener was never registered, no pump
\* and no print() ever ran; the handler writes the error and the prompt to
\* standard error, and after the key press the exit status is 1.
C1_NoDeviceExit ==
    myo = "null" =>
        /\ pc \in Failing
        /\ exc = NoDevice
        /\ ~listener
        /\ lastOp = "none"
        /\ line = <<>>
        /\ vibrateLog = <<>>
        /\ cerr = (IF pc = "catch" THEN <<>> ELSE ErrorLines(NoDevice))
        /\ exitStatus = (IF pc = "exited" THEN 1 ELSE -1)

C1_Witness ==
    /\ myo = "null"
    /\ pc = "exited"
    /\ exitStatus = 1
    /\ cerr = <<"Error: Unable to find a Myo!", "Press enter to continue.">>

\* The angles computed for the last orientation event are numbers.
AnglesInRange ==
    \/ lastQuat = <<>>
    \/ LET a == AnglesOf(lastQuat[1])
       IN  /\ ~IsNaN(a.roll) /\ Abs(a.roll) <= PI_F
           /\ ~IsNaN(a.pitch) /\ Abs(a.pitch) <= HALF_PI_F
           /\ ~IsNaN(a.yaw) /\ Abs(a.yaw) <= PI_F

C3_GaugeFormat ==
    (lastOp = "print" /\ line # <<>>) =>
        /\ Len(line) >= 3 * (GaugeWidth + 2)
        /\ GaugeAt(0, roll_w)
        /\ GaugeAt(1, pitch_w)
        /\ GaugeAt(2, yaw_w)

C3_Witness ==
    /\ lastOp = "print"
    /\ pc = "run"
    /\ roll_w = 0
    /\ pitch_w = GaugeWidth
    /\ yaw_w = 7
    /\ Len(line) = LineWidth

\* C4: for a pose name of any length, the name field print() has rendered
\* is 16 characters wide: the name filled up or cut to 16 characters.
C4_NameFieldFixedWidth ==
    lastOp = "print" => NameAt(toString(currentPose))

\* C5: once discovery has returned a device, whatever events arrive (poses
\* known to the SDK, any quaternion), the program stays in the main loop:
\* the error handler and the process exit are never reached.
C5_NoExitPath ==
    (myo = "found" /\ lastPose \notin {"name16", "name17"}) =>
        /\ pc \in Running
        /\ exc = "none"
        /\ cerr = <<>>
        /\ exitStatus = -1

\* C6: discovery precedes registration, registration precedes the first
\* pump, callbacks run only inside a pump, print() runs exactly once after
\* each pump has returned, and what it prints is the state the callbacks
\* of that pump left.
C6_StepOrder ==
    /\ listener => myo = "found"
    /\ pc \in {"run", "print"} => listener
    /\ lastOp # "none" => listener
    /\ lastOp \in {"orientation", "pose"} => pc = "run"
    /\ pc = "print" <=> lastOp = "run"
    /\ (lastOp = "print" /\ pc = "run") =>
           LineShows(roll_w, pitch_w, yaw_w, currentPose)

C6_Witness ==
    /\ lastOp = "print"
    /\ pc = "run"
    /\ lastQuat = <<Quat(1, 0, 0, 0)>>
    /\ lastPose = "rest"
    /\ LineShows(GaugeWidth, 9, 9, "rest")

\* C7: the pose is that of the last onPose event (the default pose if there
\* was none) and the bar lengths are the buckets of the quaternion of the
\* last onOrientationData event (0, 0, 0 if there was none), so neither
\* kind of event disturbs what the other kind stored.
C7_LatestEvent ==
    /\ currentPose = (IF lastPose = "none" THEN DefaultPose ELSE lastPose)
    /\ IF lastQuat = <<>>
       THEN Bars = <<0, 0, 0>>
       ELSE LET a == AnglesOf(lastQuat[1])
            IN  \E nan \in CastOutcomes(lastQuat[1]) :
                   Bars = << RollBucket(a.roll, nan), PitchBucket(a.pitch, nan),
                             RollBucket(a.yaw, nan) >>

\* A pose event after an orientation event: both are still held.
C7_Witness ==
    /\ lastOp = "pose"
    /\ lastPose = "rest"
    /\ currentPose = "rest"
    /\ lastQuat = <<Quat(1, 1, -1, 1)>>
    /\ Bars = <<9, GaugeWidth, 9>>

C9_VibrateOnFistPump ==
    vibrateLog = (IF lastOp = "pose" /\ lastPose = Fist /\ pitch_w < 5
                  THEN <<VibrationMedium>> ELSE <<>>)

C9_Witness ==
    /\ lastOp = "pose"
    /\ lastPose = Fist
    /\ lastQuat # <<>>
    /\ pitch_w = 0
    /\ vibrateLog = <<VibrationMedium>>

\* C10: before any orientation event the bar lengths are 0, 0, 0 and the
\* pose is the default one until a pose event, a print() then shows three
\* empty gauges, and a fist pose event then requests a vibration.
C10_BeforeOrientation ==
    lastQuat = <<>> =>
        /\ Bars = <<0, 0, 0>>
        /\ lastPose = "none" => currentPose = DefaultPose
        /\ (lastOp = "print" /\ pc = "run") =>
               (GaugeAt(0, 0) /\ GaugeAt(1, 0) /\ GaugeAt(2, 0))
        /\ (lastOp = "pose" /\ lastPose = Fist) => vibrateLog = <<VibrationMedium>>

\* The fist pose arrived before any orientation event, and print() ran.
C10_Witness ==
    /\ lastQuat = <<>>
    /\ lastPose = Fist
    /\ lastOp = "print"
    /\ pc = "run"
    /\ LineShows(0, 0, 0, Fist)

====
